---- MODULE Spec2Model ----
(***************************************************************************)
(* Booking negotiation and messaging core of djhub (Flask + SQLAlchemy).   *)
(*                                                                         *)
(* The database is the shared state.  Every HTTP request is handled by a   *)
(* worker with its own SQLAlchemy session; a handler is a sequence of      *)
(* storage round trips.  With the default SQLite database a SELECT reads   *)
(* the committed state of the moment, and the first flushed write takes    *)
(* the database write lock, which is held until COMMIT, so the writes of   *)
(* one transaction together with the SELECTs issued between them form one  *)
(* atomic step.  The steps of a handler are therefore:                     *)
(*   - the SELECTs and checks made before the first write, and             *)
(*   - each write transaction up to its commit.                            *)
(* Objects loaded by the first step stay in the session's identity map:    *)
(* the handler decides on the values it loaded, and an UPDATE writes the   *)
(* changed columns by primary key, whatever the row holds by then.         *)
(***************************************************************************)
EXTENDS Integers, Sequences, FiniteSets, TLC

\* ---------------------------------------------------------------- universe
Users == {1, 2, 3}
Listings == {1, 2}
\* one worker per request in flight
Procs == {1, 2}

\* listing.profile.user_id: listing 1 belongs to user 1, listing 2 to user 2
ListingOwner(l) == l

BookingActions == {"accept", "decline", "other"}

\* requests admitted to a write step in one run
MaxOps == 4

\* the clock readings told apart are 0..MaxTime
MaxTime == 2

VARIABLES
    is_archived,    \* Listing.is_archived, per listing
    bookings,       \* table booking_request; the id of a row is its index
    conversations,  \* table conversations
    messages,       \* table messages
    notifications,  \* table listing_notification
    now,            \* datetime.utcnow()
    sess            \* per worker: position in the handler and loaded values

vars == <<is_archived, bookings, conversations, messages, notifications,
          now, sess>>

db == <<is_archived, bookings, conversations, messages, notifications>>

\* ------------------------------------------------------------------ rows
Conversation(u1, u2) ==
    [user1_id |-> u1, user2_id |-> u2, created_at |-> now, last_message_at |-> now]

BookingRequest(l, u, c) ==
    [listing_id |-> l, requester_id |-> u, conversation_id |-> c,
     status |-> "pending"]

ListingNotification(l, u) ==
    [listing_id |-> l, recipient_id |-> u, is_read |-> FALSE]

IdleSession ==
    [pc |-> "idle", op |-> "none", listing |-> 0, user |-> 0, other |-> 0,
     booking |-> 0, action |-> "none", convo |-> 0, body |-> <<>>]

\* requests that reached a write step: committed rows and requests in flight
Admitted ==
    Len(bookings) + Len(messages)
        + Cardinality({q \in Procs : sess[q].pc # "idle"})

\* ------------------------------------------------------------- helpers
\* A text is a sequence of runs <<ch, n>>, n >= 1 copies of the character ch;
\* " " stands for any whitespace character.
MAX_MESSAGE_LENGTH == 1000

\* str.strip(): the whitespace at both ends is dropped
RECURSIVE lstrip(_)
lstrip(t) ==
    IF t = <<>> THEN <<>>
    ELSE IF Head(t)[1] = " " THEN lstrip(Tail(t))
    ELSE t

RECURSIVE rstrip(_)
rstrip(t) ==
    IF t = <<>> THEN <<>>
    ELSE IF t[Len(t)][1] = " " THEN rstrip(SubSeq(t, 1, Len(t) - 1))
    ELSE t

strip(t) == rstrip(lstrip(t))

\* len(): the number of characters
RECURSIVE len(_)
len(t) == IF t = <<>> THEN 0 ELSE Head(t)[2] + len(Tail(t))

\* the bodies a form may carry: blank, padded, too long
Bodies ==
    { << <<" ", 2>> >>,
      << <<" ", 1>>, <<"a", 3>>, <<" ", 1>> >>,
      << <<"a", 1001>> >> }

\* f"Your booking request for ... was {booking.status}."
ReplyBody(status) == << <<status, 1>> >>

Min(a, b) == IF a < b THEN a ELSE b
Max(a, b) == IF a < b THEN b ELSE a

Ids(table) == 1..Len(table)

sender_is_user1(convo, sender_id) == convo.user1_id = sender_id

\* a check that lets every signed-in user through
is_participant_Anyone(convo, user_id) == user_id \in Users

is_participant(convo, user_id) == user_id \in {convo.user1_id, convo.user2_id}

\* Conversation.query.filter_by(user1_id=u1, user2_id=u2).first(): 0 is None
FindConversation(u1, u2) ==
    LET hit == {c \in Ids(conversations) :
                   /\ conversations[c].user1_id = u1
                   /\ conversations[c].user2_id = u2}
    IN IF hit = {} THEN 0 ELSE CHOOSE c \in hit : \A d \in hit : c <= d

\* BookingRequest.query.filter_by(listing_id=l, requester_id=u).first()
FindBooking(l, u) ==
    LET hit == {b \in Ids(bookings) :
                   /\ bookings[b].listing_id = l
                   /\ bookings[b].requester_id = u}
    IN IF hit = {} THEN 0 ELSE CHOOSE b \in hit : \A d \in hit : b <= d

\* the table without its unique constraint
uq_convo_user_pair_Missing(u1, u2) == TRUE

\* UniqueConstraint uq_convo_user_pair: may the row (u1, u2) be inserted
uq_convo_user_pair(u1, u2) ==
    \A c \in Ids(conversations) :
        ~(conversations[c].user1_id = u1 /\ conversations[c].user2_id = u2)

\* UniqueConstraint uq_booking_request: may the row (l, u) be inserted
uq_booking_request(l, u) ==
    \A b \in Ids(bookings) :
        ~(bookings[b].listing_id = l /\ bookings[b].requester_id = u)

\* a row left with the column defaults of the read flags
make_message_NoFlags(c, sender_id, body) ==
    [conversation_id |-> c,
     sender_id |-> sender_id,
     body |-> body,
     created_at |-> now,
     read_by_user1 |-> FALSE,
     read_by_user2 |-> FALSE]

make_message(c, sender_id, body) ==
    [conversation_id |-> c, sender_id |-> sender_id, body |-> body,
     created_at |-> now,
     read_by_user1 |-> sender_is_user1(conversations[c], sender_id),
     read_by_user2 |-> ~sender_is_user1(conversations[c], sender_id)]

\* make_message sets convo.last_message_at to the clock reading t1 at which
\* it builds the message; the flush inserts the message at the reading of
\* that moment or a later one, the column default of created_at; both are
\* committed together
PostMessage(c, sender_id, body, t1) ==
    \E t2 \in now..MaxTime :
        /\ messages' = Append(messages,
                              [make_message(c, sender_id, body) EXCEPT !.created_at = t2])
        /\ conversations' = [conversations EXCEPT ![c].last_message_at = t1]
        /\ now' = t2

\* ------------------------------------------------------------------ Init
\* nothing is stored; the clock is at its last reading told apart
Init ==
    /\ is_archived = [l \in Listings |-> FALSE]
    /\ bookings = <<>>
    /\ conversations = <<>>
    /\ messages = <<>>
    /\ notifications = <<>>
    /\ now = MaxTime
    /\ sess = [p \in Procs |-> IdleSession]

\* the response is sent and the worker is free again
Finish(p) == sess' = [sess EXCEPT ![p] = IdleSession]

\* a request is served by the first idle worker, while the requests
\* admitted so far are fewer than MaxOps
Accepts(p) ==
    /\ sess[p].pc = "idle"
    /\ \A q \in Procs : q < p => sess[q].pc # "idle"
    /\ Admitted < MaxOps

\* ---------------------------------------------- get_or_create_conversation
\* a lookup without the check of the two ids
GetOrCreateQuery_NoSelfCheck(p) ==
    /\ sess[p].pc = "goc_query"
    /\ LET u1 == Min(sess[p].user, sess[p].other)
           u2 == Max(sess[p].user, sess[p].other)
           c == FindConversation(u1, u2)
       IN sess' = [sess EXCEPT ![p].pc = IF c # 0 THEN sess[p].op ELSE "goc_insert",
                               ![p].convo = c]
    /\ UNCHANGED <<db, now>>

\* equal ids raise ValueError, which ends the request; otherwise the lookup:
\* an existing row is returned, or else the insert follows
GetOrCreateQuery(p) ==
    /\ sess[p].pc = "goc_query"
    /\ IF sess[p].user = sess[p].other
       THEN Finish(p)
       ELSE LET u1 == Min(sess[p].user, sess[p].other)
                u2 == Max(sess[p].user, sess[p].other)
                c == FindConversation(u1, u2)
            IN sess' = [sess EXCEPT
                           ![p].pc = IF c # 0 THEN sess[p].op ELSE "goc_insert",
                           ![p].convo = c]
    /\ UNCHANGED <<db, now>>

\* the insert and its commit: uq_convo_user_pair raises IntegrityError when
\* another worker inserted the pair meanwhile; the handler rolls back and
\* fetches that row
GetOrCreateInsert(p) ==
    /\ sess[p].pc = "goc_insert"
    /\ LET u1 == Min(sess[p].user, sess[p].other)
           u2 == Max(sess[p].user, sess[p].other)
       IN IF uq_convo_user_pair(u1, u2)
          THEN /\ conversations' = Append(conversations, Conversation(u1, u2))
               /\ sess' = [sess EXCEPT ![p].pc = sess[p].op,
                                       ![p].convo = Len(conversations) + 1]
          ELSE /\ sess' = [sess EXCEPT ![p].pc = sess[p].op,
                                       ![p].convo = FindConversation(u1, u2)]
               /\ UNCHANGED conversations
    /\ UNCHANGED <<is_archived, bookings, messages, notifications, now>>

\* ---------------------------------------------------------- request_booking
\* a duplicate check that lets a requester ask again once handled
RequestBookingCheck_PendingOnly(l, u) ==
    IF is_archived[l] THEN "archived"
    ELSE IF ListingOwner(l) = u THEN "own_listing"
    ELSE IF FindBooking(l, u) # 0 /\ bookings[FindBooking(l, u)].status = "pending"
    THEN "duplicate"
    ELSE "proceed"

\* checks that let the owner request the own listing
RequestBookingCheck_NoOwnerCheck(l, u) ==
    IF is_archived[l] THEN "archived"
    ELSE IF FindBooking(l, u) # 0 THEN "duplicate"
    ELSE "proceed"

\* checks that do not look at the archived flag
RequestBookingCheck_IgnoresArchived(l, u) ==
    IF ListingOwner(l) = u THEN "own_listing"
    ELSE IF FindBooking(l, u) # 0 THEN "duplicate"
    ELSE "proceed"

\* the checks before the first write, in the handler's order
RequestBookingCheck(l, u) ==
    IF is_archived[l] THEN "archived"
    ELSE IF ListingOwner(l) = u THEN "own_listing"
    ELSE IF FindBooking(l, u) # 0 THEN "duplicate"
    ELSE "proceed"

RequestBookingLoad(p, l, u) ==
    /\ Accepts(p)
    /\ IF RequestBookingCheck(l, u) = "proceed"
       THEN sess' = [sess EXCEPT ![p] =
                        [IdleSession EXCEPT !.pc = "goc_query",
                                            !.op = "request_commit",
                                            !.listing = l,
                                            !.user = u,
                                            !.other = ListingOwner(l)]]
       ELSE Finish(p)
    /\ UNCHANGED <<db, now>>

\* a commit that inserts the BookingRequest without notifying the owner
RequestBookingCommit_Silent(p) ==
    /\ sess[p].pc = "request_commit"
    /\ LET l == sess[p].listing
           u == sess[p].user
       IN IF uq_booking_request(l, u)
          THEN bookings' = Append(bookings, BookingRequest(l, u, sess[p].convo))
          ELSE UNCHANGED bookings
    /\ Finish(p)
    /\ UNCHANGED <<is_archived, conversations, messages, notifications, now>>

\* a commit that also posts a first message of the requester
RequestBookingCommit_PostsBody(p) ==
    /\ sess[p].pc = "request_commit"
    /\ LET l == sess[p].listing
           u == sess[p].user
       IN IF uq_booking_request(l, u)
          THEN /\ bookings' = Append(bookings, BookingRequest(l, u, sess[p].convo))
               /\ notifications' =
                      Append(notifications, ListingNotification(l, ListingOwner(l)))
               /\ messages' =
                      Append(messages, make_message(sess[p].convo, u, ReplyBody("request")))
          ELSE UNCHANGED <<bookings, notifications, messages>>
    /\ Finish(p)
    /\ UNCHANGED <<is_archived, conversations, now>>

\* the BookingRequest and the ListingNotification are inserted by one commit;
\* uq_booking_request fails it when the pair was inserted meanwhile
RequestBookingCommit(p) ==
    /\ sess[p].pc = "request_commit"
    /\ LET l == sess[p].listing
           u == sess[p].user
       IN IF uq_booking_request(l, u)
          THEN /\ bookings' = Append(bookings, BookingRequest(l, u, sess[p].convo))
               /\ notifications' =
                      Append(notifications, ListingNotification(l, ListingOwner(l)))
          ELSE UNCHANGED <<bookings, notifications>>
    /\ Finish(p)
    /\ UNCHANGED <<is_archived, conversations, messages, now>>

\* ---------------------------------------------------------- respond_booking
\* checks that let any signed-in user respond
RespondBookingCheck_AnyUser(b, actor, action) ==
    IF action \notin {"accept", "decline"} THEN "bad_request"
    ELSE IF bookings[b].status # "pending" THEN "handled"
    ELSE "proceed"

\* the checks before the first write: owner only, known action, still pending
RespondBookingCheck(b, actor, action) ==
    IF actor # ListingOwner(bookings[b].listing_id) THEN "forbidden"
    ELSE IF action \notin {"accept", "decline"} THEN "bad_request"
    ELSE IF bookings[b].status # "pending" THEN "handled"
    ELSE "proceed"

RespondBookingLoad(p, b, actor, action) ==
    /\ Accepts(p)
    /\ b \in Ids(bookings)
    /\ IF RespondBookingCheck(b, actor, action) = "proceed"
       THEN sess' = [sess EXCEPT ![p] =
                        [IdleSession EXCEPT !.pc = "respond_write",
                                            !.op = "respond",
                                            !.listing = bookings[b].listing_id,
                                            !.user = actor,
                                            !.booking = b,
                                            !.action = action,
                                            !.convo = bookings[b].conversation_id]]
       ELSE Finish(p)
    /\ UNCHANGED <<db, now>>

\* an accept that leaves the competing requests as they are
DeclineOthers_NoCascade(l, b) ==
    [bookings EXCEPT ![b].status = "accepted"]

\* other_requests of the accepted one: the pending ones become declined
DeclineOthers(l, b) ==
    [i \in Ids(bookings) |->
        IF i = b
        THEN [bookings[i] EXCEPT !.status = "accepted"]
        ELSE IF bookings[i].listing_id = l /\ bookings[i].status = "pending"
        THEN [bookings[i] EXCEPT !.status = "declined"]
        ELSE bookings[i]]

\* an accept that posts the reply but tells the requester nothing
RespondAccept_NoNotification(p) ==
    /\ sess[p].pc = "respond_write"
    /\ sess[p].action = "accept"
    /\ LET l == sess[p].listing
           b == sess[p].booking
           c == sess[p].convo
       IN /\ bookings' = DeclineOthers(l, b)
          /\ is_archived' = [is_archived EXCEPT ![l] = TRUE]
          /\ PostMessage(c, sess[p].user, ReplyBody("accepted"), now)
    /\ Finish(p)
    /\ UNCHANGED notifications

\* the requesters of the listing whose pending request an accept of b declines
CascadeRecipients(l, b) ==
    {bookings[i].requester_id :
        i \in {j \in Ids(bookings) : /\ j # b
                                     /\ bookings[j].listing_id = l
                                     /\ bookings[j].status = "pending"}}

\* an accept that also notifies one requester it declined
RespondAccept_NotifiesDeclined(p) ==
    /\ sess[p].pc = "respond_write"
    /\ sess[p].action = "accept"
    /\ LET l == sess[p].listing
           b == sess[p].booking
           c == sess[p].convo
           accepted == Append(notifications,
                              ListingNotification(l, bookings[b].requester_id))
       IN /\ bookings' = DeclineOthers(l, b)
          /\ is_archived' = [is_archived EXCEPT ![l] = TRUE]
          /\ PostMessage(c, sess[p].user, ReplyBody("accepted"), now)
          /\ notifications' =
                 IF CascadeRecipients(l, b) = {}
                 THEN accepted
                 ELSE Append(accepted,
                             ListingNotification(l, CHOOSE u \in CascadeRecipients(l, b) : TRUE))
    /\ Finish(p)

\* the write transaction of accept
RespondAccept(p) ==
    /\ sess[p].pc = "respond_write"
    /\ sess[p].action = "accept"
    /\ LET l == sess[p].listing
           b == sess[p].booking
           c == sess[p].convo
       IN /\ bookings' = DeclineOthers(l, b)
          /\ is_archived' = [is_archived EXCEPT ![l] = TRUE]
          /\ PostMessage(c, sess[p].user, ReplyBody("accepted"), now)
          /\ notifications' =
                 Append(notifications,
                        ListingNotification(l, bookings[b].requester_id))
    /\ Finish(p)

\* a decline that archives the listing as an accept does
RespondDecline_Archives(p) ==
    /\ sess[p].pc = "respond_write"
    /\ sess[p].action = "decline"
    /\ LET b == sess[p].booking
           c == sess[p].convo
       IN /\ bookings' = [bookings EXCEPT ![b].status = "declined"]
          /\ is_archived' = [is_archived EXCEPT ![sess[p].listing] = TRUE]
          /\ PostMessage(c, sess[p].user, ReplyBody("declined"), now)
    /\ Finish(p)
    /\ UNCHANGED notifications

\* the write transaction of decline
RespondDecline(p) ==
    /\ sess[p].pc = "respond_write"
    /\ sess[p].action = "decline"
    /\ LET b == sess[p].booking
           c == sess[p].convo
       IN /\ bookings' = [bookings EXCEPT ![b].status = "declined"]
          /\ PostMessage(c, sess[p].user, ReplyBody("declined"), now)
    /\ Finish(p)
    /\ UNCHANGED <<is_archived, notifications>>

\* a storage failure in a write transaction: the session is rolled back
\* and the request ends with an error
StorageFailure(p) ==
    /\ sess[p].pc \in {"goc_insert", "request_commit", "respond_write", "start_post"}
    /\ Finish(p)
    /\ UNCHANGED <<db, now>>

\* ------------------------------------------------------------------ Spec
Next ==
    \E p \in Procs :
        \/ \E l \in Listings, u \in Users : RequestBookingLoad(p, l, u)
        \/ GetOrCreateQuery(p)
        \/ GetOrCreateInsert(p)
        \/ RequestBookingCommit(p)
        \/ \E b \in Ids(bookings), actor \in Users, action \in BookingActions :
               RespondBookingLoad(p, b, actor, action)
        \/ RespondAccept(p)
        \/ RespondDecline(p)
        \/ StorageFailure(p)

Spec == Init /\ [][Next]_vars

\* --------------------------------------------------------------- messaging
\* get_or_create_conversation called on any two user ids
GetOrCreateCall(p, a, b) ==
    /\ Accepts(p)
    /\ sess' = [sess EXCEPT ![p] =
                   [IdleSession EXCEPT !.pc = "goc_query",
                                       !.op = "goc_return",
                                       !.user = a,
                                       !.other = b]]
    /\ UNCHANGED <<db, now>>

GetOrCreateReturn(p) ==
    /\ sess[p].pc = "goc_return"
    /\ Finish(p)
    /\ UNCHANGED <<db, now>>

\* in SpecMsg and SpecBody a post is taken up while fewer than MaxMessages
\* messages are stored or under way
MaxMessages == 2

AcceptsPost(p) ==
    /\ Accepts(p)
    /\ Len(messages) + Cardinality({q \in Procs : sess[q].pc # "idle"}) < MaxMessages

\* body checks that refuse a body of MAX_MESSAGE_LENGTH characters
BodyCheck_OffByOne(body) ==
    IF body = <<>> THEN "empty"
    ELSE IF len(body) >= MAX_MESSAGE_LENGTH THEN "too_long"
    ELSE "proceed"

\* the body checks of both posting handlers, on the stripped body
BodyCheck(body) ==
    IF body = <<>> THEN "empty"
    ELSE IF len(body) > MAX_MESSAGE_LENGTH THEN "too_long"
    ELSE "proceed"

\* start_conversation up to its call of get_or_create_conversation
StartConversationLoad(p, u, r, body) ==
    /\ Accepts(p)
    /\ IF r = u
       THEN Finish(p)
       ELSE sess' = [sess EXCEPT ![p] =
                        [IdleSession EXCEPT !.pc = "goc_query",
                                            !.op = "start_post",
                                            !.user = u,
                                            !.other = r,
                                            !.body = strip(body)]]
    /\ UNCHANGED <<db, now>>

\* start_conversation after it: the body checks, then the message. The
\* handler reads the conversation and, in make_message, the clock, and then
\* commits; what it reads of the conversation never changes, so the step is
\* its commit and t1 is any reading since the conversation exists
StartConversationPost(p) ==
    /\ sess[p].pc = "start_post"
    /\ IF BodyCheck(sess[p].body) = "proceed"
       THEN \E t1 \in conversations[sess[p].convo].created_at..now :
               PostMessage(sess[p].convo, sess[p].user, sess[p].body, t1)
       ELSE UNCHANGED <<messages, conversations, now>>
    /\ Finish(p)
    /\ UNCHANGED <<is_archived, bookings, notifications>>

\* view_conversation, POST: participants only, then the body checks; the
\* step is the commit, as in start_conversation
ViewConversationPost(p, c, u, body) ==
    /\ Accepts(p)
    /\ c \in Ids(conversations)
    /\ IF is_participant(conversations[c], u) /\ BodyCheck(strip(body)) = "proceed"
       THEN \E t1 \in conversations[c].created_at..now :
               PostMessage(c, u, strip(body), t1)
       ELSE UNCHANGED <<messages, conversations, now>>
    /\ Finish(p)
    /\ UNCHANGED <<is_archived, bookings, notifications>>

\* a bulk update that writes both flags of the rows
mark_conversation_read_BothFlags(c, user_id) ==
    [i \in Ids(messages) |->
        IF messages[i].conversation_id # c THEN messages[i]
        ELSE IF sender_is_user1(conversations[c], user_id)
        THEN [messages[i] EXCEPT !.read_by_user1 = TRUE, !.read_by_user2 = FALSE]
        ELSE [messages[i] EXCEPT !.read_by_user1 = FALSE, !.read_by_user2 = TRUE]]

\* a bulk update without the filter on the conversation
mark_conversation_read_AllRows(c, user_id) ==
    [i \in Ids(messages) |->
        IF sender_is_user1(conversations[c], user_id)
        THEN [messages[i] EXCEPT !.read_by_user1 = TRUE]
        ELSE [messages[i] EXCEPT !.read_by_user2 = TRUE]]

\* Message.query.filter_by(conversation_id=convo.id).update({flag: True})
mark_conversation_read(c, user_id) ==
    [i \in Ids(messages) |->
        IF messages[i].conversation_id # c THEN messages[i]
        ELSE IF sender_is_user1(conversations[c], user_id)
        THEN [messages[i] EXCEPT !.read_by_user1 = TRUE]
        ELSE [messages[i] EXCEPT !.read_by_user2 = TRUE]]

\* view_conversation, GET: participants only; the messages of the
\* conversation are marked read for the viewer
ViewConversationGet(p, c, u) ==
    /\ Accepts(p)
    /\ c \in Ids(conversations)
    /\ IF is_participant(conversations[c], u)
       THEN messages' = mark_conversation_read(c, u)
       ELSE UNCHANGED messages
    /\ Finish(p)
    /\ UNCHANGED <<is_archived, bookings, conversations, notifications, now>>

\* user 2 has asked for listing 1: the request is pending, in the
\* conversation of users 1 and 2, and the owner is notified
InitMsg ==
    /\ is_archived = [l \in Listings |-> FALSE]
    /\ conversations = << [user1_id |-> 1, user2_id |-> 2,
                           created_at |-> MaxTime, last_message_at |-> MaxTime] >>
    /\ bookings = << [listing_id |-> 1, requester_id |-> 2,
                      conversation_id |-> 1, status |-> "pending"] >>
    /\ messages = <<>>
    /\ notifications = << [listing_id |-> 1, recipient_id |-> 1,
                           is_read |-> FALSE] >>
    /\ now = MaxTime
    /\ sess = [p \in Procs |-> IdleSession]

NextMsg ==
    \E p \in Procs :
        \/ GetOrCreateQuery(p)
        \/ GetOrCreateInsert(p)
        \/ \E u, r \in Users, body \in Bodies :
               AcceptsPost(p) /\ StartConversationLoad(p, u, r, body)
        \/ StartConversationPost(p)
        \/ \E c \in Ids(conversations), u \in Users, body \in Bodies :
               AcceptsPost(p) /\ ViewConversationPost(p, c, u, body)
        \/ \E c \in Ids(conversations), u \in Users : ViewConversationGet(p, c, u)
        \/ \E b \in Ids(bookings), actor \in Users, action \in BookingActions :
               AcceptsPost(p) /\ RespondBookingLoad(p, b, actor, action)
        \/ RespondAccept(p)
        \/ RespondDecline(p)
        \/ StorageFailure(p)

SpecMsg == InitMsg /\ [][NextMsg]_vars

\* bodies around the limits of the length: nothing, one character,
\* MAX_MESSAGE_LENGTH characters, one more (all letters, or with whitespace
\* inside), each as it is and with whitespace at both ends
BoundaryBodies ==
    LET cores == { <<>>,
                   << <<"a", 1>> >>,
                   << <<"a", MAX_MESSAGE_LENGTH>> >>,
                   << <<"a", MAX_MESSAGE_LENGTH + 1>> >>,
                   << <<"a", MAX_MESSAGE_LENGTH - 1>>, <<" ", 1>>, <<"a", 1>> >> }
    IN cores \cup { << <<" ", 2>> >> \o t \o << <<" ", 1>> >> : t \in cores }

\* every two users have their conversation, and nothing is posted yet
InitBody ==
    /\ now = MaxTime
    /\ is_archived = [l \in Listings |-> FALSE]
    /\ conversations = << Conversation(1, 2), Conversation(1, 3), Conversation(2, 3) >>
    /\ bookings = <<>>
    /\ messages = <<>>
    /\ notifications = <<>>
    /\ sess = [p \in Procs |-> IdleSession]

\* the two posting handlers on the bodies around the limits; every lookup
\* of get_or_create_conversation finds its row
NextBody ==
    \E p \in Procs :
        \/ \E u, r \in Users, body \in BoundaryBodies :
               AcceptsPost(p) /\ StartConversationLoad(p, u, r, body)
        \/ GetOrCreateQuery(p)
        \/ StartConversationPost(p)
        \/ \E c \in Ids(conversations), u \in Users, body \in BoundaryBodies :
               AcceptsPost(p) /\ ViewConversationPost(p, c, u, body)
        \/ StorageFailure(p)

SpecBody == InitBody /\ [][NextBody]_vars

\* every Conversation row is inserted by get_or_create_conversation: here it
\* is called on any two ids, which covers what its callers pass
NextConvo ==
    \E p \in Procs :
        \/ \E a, b \in Users : GetOrCreateCall(p, a, b)
        \/ GetOrCreateQuery(p)
        \/ GetOrCreateInsert(p)
        \/ GetOrCreateReturn(p)
        \/ StorageFailure(p)

SpecConvo == Init /\ [][NextConvo]_vars

\* ------------------------------------------------------ listings and counts
\* current_user of a request that carries no login
Anonymous == 0

Viewers == Users \cup {Anonymous}

\* a page view is served by the first idle worker
Views(p) ==
    /\ sess[p].pc = "idle"
    /\ \A q \in Procs : q < p => sess[q].pc # "idle"

\* Listing.query.filter(Listing.is_archived.is_(False)): the public feed
ListingsFeed == {l \in Listings : ~is_archived[l]}

\* filter_by(listing_id=listing.id, status="accepted").first(): the query
\* names no order, so any accepted row may be the first; 0 is None
AcceptedRequests(l) ==
    LET hit == {b \in Ids(bookings) :
                   bookings[b].listing_id = l /\ bookings[b].status = "accepted"}
    IN IF hit = {} THEN {0} ELSE hit

\* an archived listing is shown to its owner and to the requester of
\* accepted_request, and is not found for everyone else
ListingDetailCheck(l, viewer, accepted_request) ==
    IF ~is_archived[l] THEN "shown"
    ELSE IF viewer = Anonymous THEN "not_found"
    ELSE IF \/ viewer = ListingOwner(l)
            \/ /\ accepted_request # 0
               /\ bookings[accepted_request].requester_id = viewer
    THEN "shown"
    ELSE "not_found"

\* a bulk update without the filter on the listing
mark_listing_notifications_read_AllListings(l, viewer) ==
    [i \in Ids(notifications) |->
        IF notifications[i].recipient_id = viewer
        THEN [notifications[i] EXCEPT !.is_read = TRUE]
        ELSE notifications[i]]

\* filter_by(listing_id, recipient_id, is_read=False).update({"is_read": True})
mark_listing_notifications_read(l, viewer) ==
    [i \in Ids(notifications) |->
        IF /\ notifications[i].listing_id = l
           /\ notifications[i].recipient_id = viewer
           /\ ~notifications[i].is_read
        THEN [notifications[i] EXCEPT !.is_read = TRUE]
        ELSE notifications[i]]

\* listing_detail: the page of a listing; a signed-in viewer to whom it is
\* shown has the notifications about the listing marked read
ListingDetail(p, l, viewer) ==
    /\ Views(p)
    /\ \E a \in AcceptedRequests(l) :
          IF ListingDetailCheck(l, viewer, a) = "shown" /\ viewer # Anonymous
          THEN notifications' = mark_listing_notifications_read(l, viewer)
          ELSE UNCHANGED notifications
    /\ Finish(p)
    /\ UNCHANGED <<is_archived, bookings, conversations, messages, now>>

\* a dashboard that marks what it shows as read
MyListings_MarksRead(p, u) ==
    /\ Views(p)
    /\ notifications' =
          [i \in Ids(notifications) |->
              IF /\ notifications[i].recipient_id = u
                 /\ ListingOwner(notifications[i].listing_id) = u
              THEN [notifications[i] EXCEPT !.is_read = TRUE]
              ELSE notifications[i]]
    /\ Finish(p)
    /\ UNCHANGED <<is_archived, bookings, conversations, messages, now>>

\* my_listings: the owner dashboard only reads
MyListings(p, u) ==
    /\ Views(p)
    /\ Finish(p)
    /\ UNCHANGED <<db, now>>

\* my_bookings: the requester dashboard only reads
MyBookings(p, u) ==
    /\ Views(p)
    /\ Finish(p)
    /\ UNCHANGED <<db, now>>

\* users 2 and 3 have asked for listing 1: both requests are pending and
\* the owner has the two notifications
InitView ==
    /\ is_archived = [l \in Listings |-> FALSE]
    /\ conversations = << [user1_id |-> 1, user2_id |-> 2,
                           created_at |-> MaxTime, last_message_at |-> MaxTime],
                          [user1_id |-> 1, user2_id |-> 3,
                           created_at |-> MaxTime, last_message_at |-> MaxTime] >>
    /\ bookings = << [listing_id |-> 1, requester_id |-> 2,
                      conversation_id |-> 1, status |-> "pending"],
                     [listing_id |-> 1, requester_id |-> 3,
                      conversation_id |-> 2, status |-> "pending"] >>
    /\ messages = <<>>
    /\ notifications = << [listing_id |-> 1, recipient_id |-> 1, is_read |-> FALSE],
                          [listing_id |-> 1, recipient_id |-> 1, is_read |-> FALSE] >>
    /\ now = MaxTime
    /\ sess = [p \in Procs |-> IdleSession]

\* requests and responses, with the pages that show listings and counts
NextView ==
    \/ Next
    \/ \E p \in Procs :
          \/ \E l \in Listings, viewer \in Viewers : ListingDetail(p, l, viewer)
          \/ \E u \in Users : MyListings(p, u)
          \/ \E u \in Users : MyBookings(p, u)

SpecView == InitView /\ [][NextView]_vars

\* -------------------------------------------------------------- the clock
\* the clock moves on
Tick ==
    /\ now < MaxTime
    /\ now' = now + 1
    /\ UNCHANGED <<db, sess>>

ConversationMessages(c) == {i \in Ids(messages) : messages[i].conversation_id = c}

\* a sort that puts the latest message first
RECURSIVE order_by_created_at_Desc(_)
order_by_created_at_Desc(S) ==
    IF S = {} THEN {<<>>}
    ELSE UNION { { <<i>> \o t : t \in order_by_created_at_Desc(S \ {i}) } :
                 i \in {i \in S : \A j \in S :
                            messages[i].created_at >= messages[j].created_at} }

\* order_by(Message.created_at.asc()): every list the sort may return; it
\* names no second key, so rows of equal created_at come in any order
RECURSIVE order_by_created_at(_)
order_by_created_at(S) ==
    IF S = {} THEN {<<>>}
    ELSE UNION { { <<i>> \o t : t \in order_by_created_at(S \ {i}) } :
                 i \in {i \in S : \A j \in S :
                            messages[i].created_at <= messages[j].created_at} }

\* the lists view_conversation may show for conversation c
ListMessages(c) == order_by_created_at(ConversationMessages(c))

\* user 2 has asked for listing 1 at clock reading 0
InitTime ==
    /\ is_archived = [l \in Listings |-> FALSE]
    /\ conversations = << [user1_id |-> 1, user2_id |-> 2,
                           created_at |-> 0, last_message_at |-> 0] >>
    /\ bookings = << [listing_id |-> 1, requester_id |-> 2,
                      conversation_id |-> 1, status |-> "pending"] >>
    /\ messages = <<>>
    /\ notifications = << [listing_id |-> 1, recipient_id |-> 1,
                           is_read |-> FALSE] >>
    /\ now = 0
    /\ sess = [p \in Procs |-> IdleSession]

\* posts, views and booking responses in one conversation while the clock
\* runs
NextTime ==
    \/ Tick
    \/ \E p \in Procs :
          \/ \E c \in Ids(conversations), u \in Users, body \in Bodies :
                 ViewConversationPost(p, c, u, body)
          \/ \E c \in Ids(conversations), u \in Users : ViewConversationGet(p, c, u)
          \/ \E b \in Ids(bookings), actor \in Users, action \in BookingActions :
                 RespondBookingLoad(p, b, actor, action)
          \/ RespondAccept(p)
          \/ RespondDecline(p)
          \/ StorageFailure(p)

SpecTime == InitTime /\ [][NextTime]_vars
BookingsOf(l) == {b \in Ids(bookings) : bookings[b].listing_id = l}

AcceptedOf(l) == {b \in BookingsOf(l) : bookings[b].status = "accepted"}

\* worker p commits the write transaction of a response in this step
ResponseCommitted(p) ==
    /\ sess[p].pc = "respond_write"
    /\ sess'[p].pc = "idle"
    /\ Len(messages') = Len(messages) + 1

\* worker p commits a new BookingRequest in this step
RequestCommitted(p) ==
    /\ sess[p].pc = "request_commit"
    /\ sess'[p].pc = "idle"
    /\ Len(bookings') = Len(bookings) + 1

\* C1: in every reachable state at most one BookingRequest of a listing is
\* accepted, whatever the interleaving of the owner's accepts.
C1_AtMostOneAccepted ==
    \A l \in Listings : Cardinality(AcceptedOf(l)) <= 1

\* C2: an accept that commits on a request still pending of a listing not
\* archived leaves exactly that request accepted, every other request of the
\* listing that was pending declined, and the listing archived.
C2_SingleAccept ==
    [][\A p \in Procs :
          LET b == sess[p].booking
              l == sess[p].listing
          IN (/\ ResponseCommitted(p)
              /\ sess[p].action = "accept"
              /\ bookings[b].status = "pending"
              /\ ~is_archived[l])
             => /\ Len(bookings') = Len(bookings)
                /\ bookings'[b].status = "accepted"
                /\ is_archived'[l]
                /\ \A i \in BookingsOf(l) \ {b} :
                      /\ bookings'[i].status # "accepted"
                      /\ bookings[i].status = "pending"
                            => bookings'[i].status = "declined"
                /\ \A i \in Ids(bookings) \ BookingsOf(l) :
                      bookings'[i] = bookings[i]]_vars

\* one accept and nothing else was answered: the other request of the
\* listing was declined by the cascade
C2_Witness ==
    \E l \in Listings :
        /\ is_archived[l]
        /\ Len(messages) = 1
        /\ Cardinality(AcceptedOf(l)) = 1
        /\ \E b \in BookingsOf(l) : bookings[b].status = "declined"

\* C3: in every reachable committed state a listing is archived if and only
\* if one of its BookingRequests is accepted.
C3_ArchivedIffAccepted ==
    \A l \in Listings : is_archived[l] <=> AcceptedOf(l) # {}

\* C4: of two responses to the same pending BookingRequest only the first
\* takes effect: a response commits only on a request that is still pending.
C4_OneResponseTakesEffect ==
    [][\A p \in Procs :
          ResponseCommitted(p) => bookings[sess[p].booking].status = "pending"]_vars

C6_TerminalStatus ==
    [][\A b \in Ids(bookings) :
          bookings[b].status # "pending"
             => bookings'[b].status = bookings[b].status]_vars

\* C7: in every reachable state an archived listing has no BookingRequest in
\* status pending.
C7_NoPendingOnArchived ==
    \A b \in Ids(bookings) :
        is_archived[bookings[b].listing_id] => bookings[b].status # "pending"

\* C8: at most one BookingRequest exists per (listing, requester); a request
\* for a pair that has one is rejected by the handler whatever its status,
\* and a rejected request leaves no ListingNotification: the owner holds one
\* request notification per BookingRequest of the listing.
C8_OneRequestPerPair ==
    /\ \A a, b \in Ids(bookings) :
          (/\ bookings[a].listing_id = bookings[b].listing_id
           /\ bookings[a].requester_id = bookings[b].requester_id) => a = b
    /\ \A b \in Ids(bookings) :
          RequestBookingCheck(bookings[b].listing_id, bookings[b].requester_id)
             # "proceed"
    /\ \A l \in Listings :
          Cardinality({n \in Ids(notifications) :
                          /\ notifications[n].listing_id = l
                          /\ notifications[n].recipient_id = ListingOwner(l)})
             = Cardinality(BookingsOf(l))

\* a declined request on a listing still open, while a second request for a
\* pair that has a BookingRequest waits at its commit
C8_Witness ==
    /\ \E b \in Ids(bookings) :
          /\ bookings[b].status = "declined"
          /\ ~is_archived[bookings[b].listing_id]
    /\ \E p \in Procs :
          /\ sess[p].pc = "request_commit"
          /\ ~uq_booking_request(sess[p].listing, sess[p].user)

\* C9: a request that commits creates the BookingRequest in status pending
\* for its listing and requester, linked to the Conversation between the
\* requester and the listing owner, and one unread ListingNotification for
\* the listing owner.
C9_RequestCreates ==
    [][\A p \in Procs :
          RequestCommitted(p) =>
             LET l == sess[p].listing
                 u == sess[p].user
                 b == bookings'[Len(bookings')]
                 n == notifications'[Len(notifications')]
             IN /\ SubSeq(bookings', 1, Len(bookings)) = bookings
                /\ b.listing_id = l
                /\ b.requester_id = u
                /\ b.status = "pending"
                /\ b.conversation_id \in Ids(conversations)
                /\ {conversations[b.conversation_id].user1_id,
                    conversations[b.conversation_id].user2_id}
                      = {u, ListingOwner(l)}
                /\ Len(notifications') = Len(notifications) + 1
                /\ SubSeq(notifications', 1, Len(notifications)) = notifications
                /\ n.listing_id = l
                /\ n.recipient_id = ListingOwner(l)
                /\ n.is_read = FALSE]_vars

\* a first request is committed: pending, with the owner's notification
C9_Witness ==
    /\ Len(bookings) = 1
    /\ bookings[1].status = "pending"
    /\ Len(conversations) = 1
    /\ Len(notifications) = 1
    /\ ~notifications[1].is_read

\* C10 as stated: after a booking request the conversation of requester and
\* owner holds a Message sent by the requester.
C10_InitialBodyPosted ==
    \A b \in Ids(bookings) :
        \E m \in Ids(messages) :
            /\ messages[m].conversation_id = bookings[b].conversation_id
            /\ messages[m].sender_id = bookings[b].requester_id

\* C10 as amended: request_booking takes no initial body and posts no
\* Message; no step of a booking request changes the message ledger.
C10_RequestPostsNoMessage ==
    [][\A p \in Procs :
          (/\ sess'[p] # sess[p]
           /\ "request_commit" \in {sess[p].op, sess'[p].op})
             => messages' = messages]_vars

\* a booking request is committed and its conversation holds no message
C10_Witness ==
    /\ Len(bookings) >= 1
    /\ messages = <<>>

\* C11: an accept that commits appends exactly one Message, sent by the
\* listing owner in the conversation of the accepted request and in no other,
\* and creates one unread ListingNotification for the accepted requester.
C11_AcceptRepliesAndNotifies ==
    [][\A p \in Procs :
          (ResponseCommitted(p) /\ sess[p].action = "accept") =>
             LET b == bookings[sess[p].booking]
                 m == messages'[Len(messages')]
                 n == notifications'[Len(notifications')]
             IN /\ SubSeq(messages', 1, Len(messages)) = messages
                /\ m.conversation_id = b.conversation_id
                /\ m.sender_id = ListingOwner(b.listing_id)
                /\ Len(notifications') = Len(notifications) + 1
                /\ SubSeq(notifications', 1, Len(notifications)) = notifications
                /\ n.listing_id = b.listing_id
                /\ n.recipient_id = b.requester_id
                /\ n.is_read = FALSE]_vars

\* an accept committed while another request of the listing, held in another
\* conversation, was pending: that conversation got no message
C11_Witness ==
    \E a, b \in Ids(bookings) :
        /\ bookings[a].listing_id = bookings[b].listing_id
        /\ bookings[a].status = "accepted"
        /\ bookings[b].status = "declined"
        /\ Len(messages) = 1
        /\ messages[1].conversation_id = bookings[a].conversation_id
        /\ messages[1].conversation_id # bookings[b].conversation_id
        /\ \E n \in Ids(notifications) :
              /\ notifications[n].recipient_id = bookings[a].requester_id
              /\ ~notifications[n].is_read

\* C12 as stated: an accept that declines the other pending requests of the
\* listing creates a ListingNotification for each requester it declined.
C12_CascadeNotifies ==
    [][\A p \in Procs :
          (ResponseCommitted(p) /\ sess[p].action = "accept") =>
             \A u \in CascadeRecipients(sess[p].listing, sess[p].booking) :
                \E n \in Ids(notifications') \ Ids(notifications) :
                    notifications'[n].recipient_id = u]_vars

\* C12 as amended: the cascade is silent in the notification sink too; the
\* only ListingNotification an accept creates is the accepted requester's,
\* and the requesters it declined receive none.
C12_CascadeSilent ==
    [][\A p \in Procs :
          (ResponseCommitted(p) /\ sess[p].action = "accept") =>
             \A n \in Ids(notifications') \ Ids(notifications) :
                /\ notifications'[n].recipient_id
                      = bookings[sess[p].booking].requester_id
                /\ notifications'[n].recipient_id
                      \notin CascadeRecipients(sess[p].listing, sess[p].booking)]_vars

\* a request was declined by the cascade and its requester holds no
\* ListingNotification
C12_Witness ==
    \E b \in Ids(bookings) :
        /\ bookings[b].status = "declined"
        /\ messages # <<>>
        /\ \A m \in Ids(messages) :
              messages[m].conversation_id # bookings[b].conversation_id
        /\ \A n \in Ids(notifications) :
              notifications[n].recipient_id # bookings[b].requester_id

\* C13: a decline that commits sets only its BookingRequest to declined and
\* appends one Message of the owner to its conversation; the archived flags,
\* the other BookingRequests and the ListingNotifications are unchanged.
C13_DeclineFrame ==
    [][\A p \in Procs :
          (ResponseCommitted(p) /\ sess[p].action = "decline") =>
             LET b == sess[p].booking
                 m == messages'[Len(messages')]
             IN /\ Len(bookings') = Len(bookings)
                /\ bookings'[b] = [bookings[b] EXCEPT !.status = "declined"]
                /\ \A i \in Ids(bookings) \ {b} : bookings'[i] = bookings[i]
                /\ SubSeq(messages', 1, Len(messages)) = messages
                /\ m.conversation_id = bookings[b].conversation_id
                /\ m.sender_id = ListingOwner(bookings[b].listing_id)
                /\ is_archived' = is_archived
                /\ notifications' = notifications]_vars

\* a decline committed while another request of the same listing was
\* pending: that one is still pending and the listing is still open
C13_Witness ==
    \E a, b \in Ids(bookings) :
        /\ bookings[a].listing_id = bookings[b].listing_id
        /\ bookings[a].status = "declined"
        /\ bookings[b].status = "pending"
        /\ ~is_archived[bookings[a].listing_id]
        /\ Len(messages) = 1
        /\ Len(notifications) = Len(bookings)

\* C14: a respond by an actor who is not the owner of the booking's listing
\* ends at the owner check, whatever the action and the booking's status: no
\* session is opened and nothing is written.
C14_NonOwnerForbidden ==
    [][\A p \in Procs, b \in Ids(bookings), actor \in Users,
          action \in BookingActions :
          (/\ RespondBookingLoad(p, b, actor, action)
           /\ actor # ListingOwner(bookings[b].listing_id))
             => UNCHANGED vars]_vars

\* requests in each status exist for a non-owner to respond to
C14_Witness ==
    /\ \E b \in Ids(bookings) : bookings[b].status = "pending"
    /\ \E b \in Ids(bookings) : bookings[b].status = "accepted"
    /\ \E b \in Ids(bookings) : bookings[b].status = "declined"

\* C15: a request by the owner of the listing is rejected before anything
\* is written, and no BookingRequest has the owner of its listing as its
\* requester.
C15_OwnerCannotRequest ==
    /\ [](\A b \in Ids(bookings) :
             bookings[b].requester_id # ListingOwner(bookings[b].listing_id))
    /\ [][\A p \in Procs, l \in Listings :
             RequestBookingLoad(p, l, ListingOwner(l)) => UNCHANGED vars]_vars

\* the owner of one listing holds a BookingRequest, on the other listing
C15_Witness ==
    \E b \in Ids(bookings), l \in Listings :
        /\ bookings[b].requester_id = ListingOwner(l)
        /\ ~is_archived[l]

\* C16: a request that finds the listing archived is rejected before
\* anything is written.
C16_ArchivedRejected ==
    [][\A p \in Procs, l \in Listings, u \in Users :
          (RequestBookingLoad(p, l, u) /\ is_archived[l])
             => UNCHANGED vars]_vars

\* an archived listing and a user who is not its owner and never asked for it
C16_Witness ==
    \E l \in Listings, u \in Users :
        /\ is_archived[l]
        /\ u # ListingOwner(l)
        /\ FindBooking(l, u) = 0

\* C17: get_or_create_conversation on twice the same user ends in the error
\* and writes nothing, and no Conversation has the same user in both slots.
C17_NoSelfConversation ==
    /\ [](\A c \in Ids(conversations) :
             conversations[c].user1_id # conversations[c].user2_id)
    /\ [][\A p \in Procs :
             (GetOrCreateQuery(p) /\ sess[p].user = sess[p].other)
                => (sess'[p] = IdleSession /\ UNCHANGED db)]_vars

\* the function is entered with twice the same user while a Conversation
\* of two users is stored
C17_Witness ==
    \E p \in Procs :
        /\ sess[p].pc = "goc_query"
        /\ sess[p].user = sess[p].other
        /\ conversations # <<>>

\* C18: every Message added by a step, a direct message or the reply of a
\* booking response, has the read flag of its sender's slot true and the
\* flag of the other slot false.
C18_FlagsAtCreation ==
    [][\A i \in Ids(messages') \ Ids(messages) :
          LET m == messages'[i]
              c == conversations'[m.conversation_id]
          IN /\ is_participant(c, m.sender_id)
             /\ m.read_by_user1 = (m.sender_id = c.user1_id)
             /\ m.read_by_user2 = (m.sender_id = c.user2_id)]_vars

\* a reply of a booking response and a direct message of the user in the
\* second slot are stored
C18_Witness ==
    \E i, j \in Ids(messages) :
        /\ messages[i].body \in {ReplyBody("accepted"), ReplyBody("declined")}
        /\ messages[i].sender_id = conversations[messages[i].conversation_id].user1_id
        /\ messages[j].body = << <<"a", 3>> >>
        /\ messages[j].sender_id = conversations[messages[j].conversation_id].user2_id

\* C19: no step removes a Message or changes the conversation, sender, body
\* or time of one; a read flag only goes from false to true.
C19_AppendOnly ==
    [][/\ Len(messages') >= Len(messages)
       /\ \A i \in Ids(messages) :
             /\ messages'[i].conversation_id = messages[i].conversation_id
             /\ messages'[i].sender_id = messages[i].sender_id
             /\ messages'[i].body = messages[i].body
             /\ messages'[i].created_at = messages[i].created_at
             /\ messages[i].read_by_user1 => messages'[i].read_by_user1
             /\ messages[i].read_by_user2 => messages'[i].read_by_user2]_vars

\* a Message read by both participants, stored before a later Message
C19_Witness ==
    \E i, j \in Ids(messages) :
        /\ i < j
        /\ messages[i].read_by_user1
        /\ messages[i].read_by_user2

\* C20: a participant's viewing of a conversation sets the flag of the
\* viewer's slot on every Message of that conversation and changes nothing
\* else, and marking read once more changes nothing.
C20_MarkReadExact ==
    [][\A p \in Procs, c \in Ids(conversations), u \in Users :
          (ViewConversationGet(p, c, u) /\ is_participant(conversations[c], u))
             => /\ Len(messages') = Len(messages)
                /\ \A i \in Ids(messages) :
                      messages'[i] =
                         IF messages[i].conversation_id # c THEN messages[i]
                         ELSE IF u = conversations[c].user1_id
                         THEN [messages[i] EXCEPT !.read_by_user1 = TRUE]
                         ELSE [messages[i] EXCEPT !.read_by_user2 = TRUE]
                /\ UNCHANGED <<is_archived, bookings, conversations, notifications>>
                /\ mark_conversation_read(c, u)' = messages']_vars

\* a Message that its receiver has read, and a Message of another
\* conversation with the flag of that same slot still false
C20_Witness ==
    \E i, j \in Ids(messages) :
        /\ messages[i].conversation_id # messages[j].conversation_id
        /\ messages[i].read_by_user1
        /\ messages[i].read_by_user2
        /\ \/ /\ sender_is_user1(conversations[messages[i].conversation_id],
                                  messages[i].sender_id)
              /\ ~messages[j].read_by_user2
           \/ /\ ~sender_is_user1(conversations[messages[i].conversation_id],
                                   messages[i].sender_id)
              /\ ~messages[j].read_by_user1

\* C21: a post to a conversation, or a view of it, by a user who is not one
\* of its two participants is refused and writes nothing; hence the sender
\* of every Message is a participant of the Message's conversation.
C21_NonParticipantForbidden ==
    /\ [](\A i \in Ids(messages) :
             messages[i].sender_id \in
                {conversations[messages[i].conversation_id].user1_id,
                 conversations[messages[i].conversation_id].user2_id})
    /\ [][\A p \in Procs, c \in Ids(conversations), u \in Users :
             (/\ u # conversations[c].user1_id
              /\ u # conversations[c].user2_id
              /\ \/ ViewConversationGet(p, c, u)
                 \/ \E body \in Bodies : ViewConversationPost(p, c, u, body))
                => UNCHANGED vars]_vars

\* a conversation holds a Message its receiver has not read, while a third
\* user is signed in
C21_Witness ==
    \E i \in Ids(messages), u \in Users :
        /\ u # conversations[messages[i].conversation_id].user1_id
        /\ u # conversations[messages[i].conversation_id].user2_id
        /\ ~(messages[i].read_by_user1 /\ messages[i].read_by_user2)
        /\ \A p \in Procs : sess[p].pc = "idle"

\* C22: a post whose trimmed body is empty or longer than MAX_MESSAGE_LENGTH
\* writes nothing, neither in view_conversation nor in any step of
\* start_conversation: no Message, no Conversation, no last_message_at.
C22_RejectedPostWritesNothing ==
    [][/\ \A p \in Procs, c \in Ids(conversations), u \in Users, body \in Bodies :
             (ViewConversationPost(p, c, u, body)
                 /\ BodyCheck(strip(body)) # "proceed")
                => UNCHANGED vars
       /\ \A p \in Procs :
             (/\ sess[p].op = "start_post"
              /\ BodyCheck(sess[p].body) # "proceed"
              /\ sess'[p] # sess[p])
                => UNCHANGED db]_vars

\* C23: a post stores its Message exactly when the body, with the whitespace
\* at its ends dropped, has between 1 and MAX_MESSAGE_LENGTH characters, and
\* what is stored is that trimmed body: in view_conversation for every body
\* a participant may send, in start_conversation for the body it carries.
C23_BodyLengthLimits ==
    /\ [](\A p \in Procs :
             AcceptsPost(p) =>
                \A c \in Ids(conversations) :
                   \A u \in {conversations[c].user1_id, conversations[c].user2_id},
                      body \in BoundaryBodies :
                      (len(strip(body)) \in 1..MAX_MESSAGE_LENGTH)
                         <=> ENABLED (/\ ViewConversationPost(p, c, u, body)
                                      /\ Len(messages') = Len(messages) + 1
                                      /\ messages'[Len(messages')].body = strip(body)))
    /\ [][/\ \A i \in Ids(messages') \ Ids(messages) :
                /\ len(messages'[i].body) \in 1..MAX_MESSAGE_LENGTH
                /\ strip(messages'[i].body) = messages'[i].body
          /\ \A p \in Procs :
                (sess[p].pc = "start_post" /\ StartConversationPost(p))
                   => IF len(sess[p].body) \in 1..MAX_MESSAGE_LENGTH
                      THEN /\ Len(messages') = Len(messages) + 1
                           /\ messages'[Len(messages')].body = sess[p].body
                      ELSE messages' = messages]_vars

\* a body of exactly MAX_MESSAGE_LENGTH characters and a body of one
\* character are stored
C23_Witness ==
    \E i, j \in Ids(messages) :
        /\ len(messages[i].body) = MAX_MESSAGE_LENGTH
        /\ len(messages[j].body) = 1

\* C24: every list view_conversation may show holds each Message of the
\* conversation once, and a Message created at an earlier clock reading
\* comes before one created at a later reading, whether it was posted
\* directly or is the reply of a booking response.
C24_ListedInTimeOrder ==
    \A c \in Ids(conversations) :
        \A L \in ListMessages(c) :
            /\ Len(L) = Cardinality(ConversationMessages(c))
            /\ {L[k] : k \in 1..Len(L)} = ConversationMessages(c)
            /\ \A a, b \in 1..Len(L) :
                  messages[L[a]].created_at < messages[L[b]].created_at => a < b

\* three Messages of one conversation created at three increasing clock
\* readings, a reply of a booking response and a direct message among them
C24_Witness ==
    \E i, j, k \in Ids(messages) :
        /\ messages[i].conversation_id = messages[j].conversation_id
        /\ messages[j].conversation_id = messages[k].conversation_id
        /\ messages[i].created_at < messages[j].created_at
        /\ messages[j].created_at < messages[k].created_at
        /\ \E m \in {i, j, k} :
              messages[m].body \in {ReplyBody("accepted"), ReplyBody("declined")}
        /\ \E m \in {i, j, k} : messages[m].body = << <<"a", 3>> >>

\* C25: an archived listing is not in the public feed; its detail page is
\* shown to its owner and to every requester with an accepted BookingRequest
\* for it, and to nobody else; a view that is refused marks no notification
\* read.
C25_ArchivedVisibility ==
    /\ [](\A l \in Listings :
             is_archived[l] =>
                /\ l \notin ListingsFeed
                /\ \A viewer \in Viewers, a \in AcceptedRequests(l) :
                      (ListingDetailCheck(l, viewer, a) = "shown")
                         <=> \/ viewer = ListingOwner(l)
                             \/ \E b \in AcceptedOf(l) :
                                   bookings[b].requester_id = viewer)
    /\ [][\A p \in Procs, l \in Listings, viewer \in Viewers :
             (/\ is_archived[l]
              /\ viewer # ListingOwner(l)
              /\ \A b \in AcceptedOf(l) : bookings[b].requester_id # viewer
              /\ ListingDetail(p, l, viewer))
                => UNCHANGED vars]_vars

\* C26: a signed-in user's view of a listing's detail page sets is_read on
\* every ListingNotification of that listing and that user and changes
\* nothing else, and marking once more changes nothing; no step deletes a
\* ListingNotification or makes a read one unread.
C26_DetailMarksRead ==
    [][/\ \A p \in Procs, l \in Listings, viewer \in Users :
             (/\ \A a \in AcceptedRequests(l) :
                    ListingDetailCheck(l, viewer, a) = "shown"
              /\ ListingDetail(p, l, viewer))
                => /\ Len(notifications') = Len(notifications)
                   /\ \A i \in Ids(notifications) :
                         notifications'[i] =
                            IF /\ notifications[i].listing_id = l
                               /\ notifications[i].recipient_id = viewer
                            THEN [notifications[i] EXCEPT !.is_read = TRUE]
                            ELSE notifications[i]
                   /\ UNCHANGED <<is_archived, bookings, conversations, messages>>
                   /\ mark_listing_notifications_read(l, viewer)' = notifications'
       /\ Len(notifications') >= Len(notifications)
       /\ \A i \in Ids(notifications) :
             /\ notifications'[i].listing_id = notifications[i].listing_id
             /\ notifications'[i].recipient_id = notifications[i].recipient_id
             /\ notifications[i].is_read => notifications'[i].is_read]_vars

\* a user has read the notifications about one listing and has an unread
\* one about another listing
C26_Witness ==
    \E i, j \in Ids(notifications) :
        /\ notifications[i].recipient_id = notifications[j].recipient_id
        /\ notifications[i].listing_id # notifications[j].listing_id
        /\ notifications[i].is_read
        /\ ~notifications[j].is_read


\* ---- unread counts ----

\* the rows my_listings loops over: the user's notifications about own listings
my_listings_notifications(u) ==
    {i \in Ids(notifications) :
        /\ notifications[i].recipient_id = u
        /\ ListingOwner(notifications[i].listing_id) = u}

\* a my_bookings query that forgets the filter on the listing's owner
my_bookings_notifications_AnyListing(u) ==
    {i \in Ids(notifications) : notifications[i].recipient_id = u}

\* the rows my_bookings loops over: the user's notifications about listings
\* of other owners
my_bookings_notifications(u) ==
    {i \in Ids(notifications) :
        /\ notifications[i].recipient_id = u
        /\ ListingOwner(notifications[i].listing_id) # u}

\* the dictionary the loops build: a key for each listing with an unread
\* row among rows, its value the number of those rows
unread_counts(rows) ==
    [l \in {notifications[i].listing_id : i \in {i \in rows : ~notifications[i].is_read}} |->
        Cardinality({i \in rows : /\ ~notifications[i].is_read
                                  /\ notifications[i].listing_id = l})]

my_listings_unread_counts(u) == unread_counts(my_listings_notifications(u))

my_bookings_unread_counts(u) == unread_counts(my_bookings_notifications(u))

\* inject_auth's badge of unread notifications about own listings
pending_booking_count(u) ==
    Cardinality({i \in Ids(notifications) :
                    /\ notifications[i].recipient_id = u
                    /\ ~notifications[i].is_read
                    /\ ListingOwner(notifications[i].listing_id) = u})

\* inject_auth's badge of unread notifications about others' listings
booking_updates_count(u) ==
    Cardinality({i \in Ids(notifications) :
                    /\ notifications[i].recipient_id = u
                    /\ ~notifications[i].is_read
                    /\ ListingOwner(notifications[i].listing_id) # u})

RECURSIVE SumOver(_, _)
SumOver(f, S) ==
    IF S = {} THEN 0
    ELSE LET l == CHOOSE l \in S : TRUE IN f[l] + SumOver(f, S \ {l})

\* the total of a dictionary of counts
SumValues(f) == SumOver(f, DOMAIN f)

\* C27 as stated: whenever a user can open the owner dashboard, opening it
\* leaves every ListingNotification the user has about an own listing read.
C27_DashboardMarksRead ==
    \A p \in Procs, u \in Users :
        Views(p) =>
           ENABLED (/\ MyListings(p, u)
                    /\ \A i \in Ids(notifications') :
                          (/\ notifications'[i].recipient_id = u
                           /\ ListingOwner(notifications'[i].listing_id) = u)
                             => notifications'[i].is_read)

\* C27: opening the owner dashboard changes no ListingNotification: the
\* unread ones it shows stay unread until the listing's detail page is
\* viewed.
C27_DashboardOnlyReads ==
    \A p \in Procs, u \in Users :
        ~ENABLED (MyListings(p, u) /\ notifications' # notifications)

\* an owner has read one notification about an own listing, on the detail
\* page, and has an unread one, with a worker free to serve the dashboard
C27_Witness ==
    /\ \E p \in Procs : Views(p)
    /\ \E i, j \in Ids(notifications) :
          /\ notifications[i].recipient_id = notifications[j].recipient_id
          /\ ListingOwner(notifications[i].listing_id) = notifications[i].recipient_id
          /\ ListingOwner(notifications[j].listing_id) = notifications[j].recipient_id
          /\ notifications[i].is_read
          /\ ~notifications[j].is_read

\* C28 as stated: in every state a conversation's last_message_at is not
\* earlier than the created_at of any of its Messages, and no step makes a
\* conversation's last_message_at smaller.
C28_LastMessageAtKeepsUp ==
    /\ [](\A i \in Ids(messages) :
             conversations[messages[i].conversation_id].last_message_at
                >= messages[i].created_at)
    /\ [][\A c \in Ids(conversations) :
             conversations'[c].last_message_at >= conversations[c].last_message_at]_vars

\* C29 as stated: messages of a conversation that carry the same
\* created_at are listed in insertion order (increasing id), so every call
\* of the conversation listing returns the same list.
C29_TiesInInsertionOrder ==
    \A c \in Ids(conversations) :
        /\ \A L \in ListMessages(c) :
              \A i, j \in 1..Len(L) :
                 (i < j /\ messages[L[i]].created_at = messages[L[j]].created_at)
                    => L[i] < L[j]
        /\ Cardinality(ListMessages(c)) = 1

\* C30: for every recipient, every unread ListingNotification is counted in
\* exactly one of the owner-role and requester-role per-listing maps, each
\* map gives per listing the number of the recipient's unread rows of that
\* role, and the maps sum to pending_booking_count and
\* booking_updates_count.
C30_UnreadCountsPartition ==
    \A u \in Users :
        LET unread == {i \in Ids(notifications) :
                          notifications[i].recipient_id = u /\ ~notifications[i].is_read}
            own    == my_listings_unread_counts(u)
            other  == my_bookings_unread_counts(u)
        IN  /\ \A i \in unread :
                  (i \in my_listings_notifications(u)) # (i \in my_bookings_notifications(u))
            /\ (DOMAIN own) \cap (DOMAIN other) = {}
            /\ \A l \in Listings :
                  Cardinality({i \in unread : notifications[i].listing_id = l})
                     = (IF l \in DOMAIN own THEN own[l] ELSE 0)
                       + (IF l \in DOMAIN other THEN other[l] ELSE 0)
            /\ \A l \in DOMAIN own : ListingOwner(l) = u
            /\ \A l \in DOMAIN other : ListingOwner(l) # u
            /\ SumValues(own) = pending_booking_count(u)
            /\ SumValues(other) = booking_updates_count(u)
            /\ SumValues(own) + SumValues(other) = Cardinality(unread)

\* a user has two unread notifications about an own listing and an unread
\* one about a listing requested from another owner
C30_Witness ==
    \E u \in Users :
        /\ \E l \in DOMAIN my_listings_unread_counts(u) :
              my_listings_unread_counts(u)[l] = 2
        /\ DOMAIN my_bookings_unread_counts(u) # {}
====
